---- MODULE Spec2Model ----
(***************************************************************************)
(* The ChatWoot Attachment node (nodes/ChatWoot/ChatWootAttachment.node.ts) *)
(* as a state machine: execute() downloads each input item's attachment,   *)
(* derives its file name and MIME type, assembles the multipart form,      *)
(* posts it to ChatWoot and collects one result per item.                  *)
(*                                                                         *)
(* Text is a sequence of one-character strings, so that the header regex,  *)
(* percent-decoding, URL parsing, trimming and JSON parsing are computed   *)
(* character by character as the code computes them.                       *)
(***************************************************************************)
EXTENDS Integers, Sequences, FiniteSets, TLC

\* ------------------------------------------------------------------ text

\* LET v == x IN F(v)
Let(x, F(_)) == CHOOSE r \in {F(v) : v \in {x}} : TRUE

\* Byte b (0..127) is Ascii[b + 1]; control bytes and the grave accent (0x60)
\* are written "<hh>".
Ascii ==
  <<"<00>", "<01>", "<02>", "<03>", "<04>", "<05>", "<06>", "<07>",
    "<08>", "<09>", "<0A>", "<0B>", "<0C>", "<0D>", "<0E>", "<0F>",
    "<10>", "<11>", "<12>", "<13>", "<14>", "<15>", "<16>", "<17>",
    "<18>", "<19>", "<1A>", "<1B>", "<1C>", "<1D>", "<1E>", "<1F>",
    " ", "!", "\"", "#", "$", "%", "&", "'", "(", ")", "*", "+", ",", "-", ".", "/",
    "0", "1", "2", "3", "4", "5", "6", "7", "8", "9", ":", ";", "<", "=", ">", "?",
    "@", "A", "B", "C", "D", "E", "F", "G", "H", "I", "J", "K", "L", "M", "N", "O",
    "P", "Q", "R", "S", "T", "U", "V", "W", "X", "Y", "Z", "[", "\\", "]", "^", "_",
    "<60>", "a", "b", "c", "d", "e", "f", "g", "h", "i", "j", "k", "l", "m", "n", "o",
    "p", "q", "r", "s", "t", "u", "v", "w", "x", "y", "z", "{", "|", "}", "~", "<7F>">>

\* The byte of an ASCII character.
ByteOf(c) == (CHOOSE i \in 1..128 : Ascii[i] = c) - 1

UpperLetters == <<"A","B","C","D","E","F","G","H","I","J","K","L","M","N","O","P","Q","R","S","T","U","V","W","X","Y","Z">>

LowerLetters == <<"a","b","c","d","e","f","g","h","i","j","k","l","m","n","o","p","q","r","s","t","u","v","w","x","y","z">>

Digits == {"0", "1", "2", "3", "4", "5", "6", "7", "8", "9"}

HexDigits == <<"0","1","2","3","4","5","6","7","8","9","a","b","c","d","e","f">>

IsAlpha(c) == \E i \in 1..26 : c = UpperLetters[i] \/ c = LowerLetters[i]

\* String.prototype.toLowerCase, one character.
Lower(c) ==
  IF \E i \in 1..26 : UpperLetters[i] = c
  THEN LowerLetters[CHOOSE i \in 1..26 : UpperLetters[i] = c]
  ELSE c

\* String.prototype.toLowerCase.
ToLowerCase(s) == [i \in 1..Len(s) |-> Lower(s[i])]

\* s from position p to its end.
From(s, p) == SubSeq(s, p, Len(s))

\* lit occurs in s at position p, compared case-insensitively.
MatchLit(s, p, lit) ==
  /\ p >= 1
  /\ p + Len(lit) - 1 <= Len(s)
  /\ \A i \in 1..Len(lit) : Lower(s[p + i - 1]) = Lower(lit[i])

\* lit occurs in s at position p, compared exactly.
MatchExact(s, p, lit) ==
  /\ p >= 1
  /\ p + Len(lit) - 1 <= Len(s)
  /\ \A i \in 1..Len(lit) : s[p + i - 1] = lit[i]

\* s includes sub (String.prototype.includes).
Includes(s, sub) == \E p \in 1..(Len(s) + 1) : MatchExact(s, p, sub)

\* The position of the first character of s at or after p that is in stop,
\* Len(s) + 1 when there is none.
RECURSIVE FindAny(_, _, _)
FindAny(s, p, stop) ==
  IF p > Len(s) \/ s[p] \in stop THEN p ELSE FindAny(s, p + 1, stop)

\* The position of the first character at or after p that is not in skip.
RECURSIVE SkipAll(_, _, _)
SkipAll(s, p, skip) ==
  IF p <= Len(s) /\ s[p] \in skip THEN SkipAll(s, p + 1, skip) ELSE p

\* The decimal digits of a natural number (String(n), template literals).
RECURSIVE NatToString(_)
NatToString(n) ==
  IF n < 10 THEN <<HexDigits[n + 1]>>
  ELSE NatToString(n \div 10) \o <<HexDigits[(n % 10) + 1]>>

\* ------------------------------------------------------------ JS values

\* A JavaScript value: ty is its kind, and b, n, s, kids hold the payload of
\* a boolean, a number, a string, and the entries of an array or object
\* (each entry [k |-> key, v |-> value]; an array's keys are empty).
JSValue(ty, b, n, s, kids) == [ty |-> ty, b |-> b, n |-> n, s |-> s, kids |-> kids]

Undefined == JSValue("undefined", FALSE, 0, <<>>, <<>>)

Null == JSValue("null", FALSE, 0, <<>>, <<>>)

Bool(b) == JSValue("boolean", b, 0, <<>>, <<>>)

Num(n) == JSValue("number", FALSE, n, <<>>, <<>>)

Str(s) == JSValue("string", FALSE, 0, s, <<>>)

Arr(vs) == JSValue("array", FALSE, 0, <<>>, [i \in 1..Len(vs) |-> [k |-> <<>>, v |-> vs[i]]])

Obj(kids) == JSValue("object", FALSE, 0, <<>>, kids)

\* typeof v
TypeOf(v) ==
  IF v.ty \in {"null", "array", "object"} THEN "object" ELSE v.ty

\* ToBoolean(v): the test of !v, v || w and if (v).
Truthy(v) ==
  CASE v.ty = "undefined" -> FALSE
    [] v.ty = "null" -> FALSE
    [] v.ty = "boolean" -> v.b
    [] v.ty = "number" -> v.n # 0
    [] v.ty = "string" -> v.s # <<>>
    [] OTHER -> TRUE

\* The first truthy value of vs, its last value when none is: v1 || v2 || ...
FirstTruthy(vs) ==
  IF \E i \in 1..Len(vs) : Truthy(vs[i])
  THEN vs[CHOOSE i \in 1..Len(vs) : Truthy(vs[i]) /\ \A j \in 1..(i - 1) : ~Truthy(vs[j])]
  ELSE vs[Len(vs)]

\* String(v) of a primitive or plain object.
String(v) ==
  CASE v.ty = "string" -> v.s
    [] v.ty = "number" ->
         IF v.n < 0 THEN <<"-">> \o NatToString(-v.n) ELSE NatToString(v.n)
    [] v.ty = "boolean" -> IF v.b THEN <<"t","r","u","e">> ELSE <<"f","a","l","s","e">>
    [] v.ty = "null" -> <<"n","u","l","l">>
    [] v.ty = "undefined" -> <<"u","n","d","e","f","i","n","e","d">>
    [] OTHER -> <<"[","o","b","j","e","c","t"," ","O","b","j","e","c","t","]">>

\* obj[key] of an object held as its entries: undefined when absent.
Get(entries, key) ==
  IF \E i \in 1..Len(entries) : entries[i].k = key
  THEN entries[CHOOSE i \in 1..Len(entries) : entries[i].k = key].v
  ELSE Undefined

\* Object.prototype.hasOwnProperty.call(obj, key)
HasOwn(entries, key) == \E i \in 1..Len(entries) : entries[i].k = key

\* -------------------------------------------------------- getHeaderValue

\* Object.entries(headers).find(([key]) => key.toLowerCase() === name.toLowerCase()):
\* the position of the first entry whose key matches, 0 when there is none.
FindHeader(headers, name) ==
  IF \E i \in 1..Len(headers) : ToLowerCase(headers[i].k) = ToLowerCase(name)
  THEN CHOOSE i \in 1..Len(headers) :
         /\ ToLowerCase(headers[i].k) = ToLowerCase(name)
         /\ \A j \in 1..(i - 1) : ToLowerCase(headers[j].k) # ToLowerCase(name)
  ELSE 0

\* The lines of getHeaderValue after the entry is found.
HeaderEntryValue(value) ==
  IF value.ty = "array"
    THEN (IF Len(value.kids) = 0 THEN Undefined ELSE value.kids[1].v)
  ELSE IF value.ty \in {"undefined", "null"} THEN Undefined
  ELSE Str(String(value))

\* getHeaderValue(headers, name): string | undefined
getHeaderValue(headers, name) ==
  Let(FindHeader(headers, name),
      LAMBDA at : IF at = 0 THEN Undefined ELSE HeaderEntryValue(headers[at].v))

\* ---------------------------------------- parseContentDispositionFilename

\* The length of the longest run of [^";] in h from position p.
RunLen(h, p) == FindAny(h, p, {"\"", ";"}) - p

\* /filename\*?=(?:UTF-8''|\")?([^\";]+)/i tried at position p: the first
\* capture group, or <<>> when the pattern does not match there. The optional
\* group is tried as UTF-8'', then as a quote, then as empty.
RegexAt(h, p) ==
  LET e == IF p + 8 <= Len(h) /\ h[p + 8] = "*" THEN p + 9 ELSE p + 8
  IN IF ~MatchLit(h, p, <<"f","i","l","e","n","a","m","e">>) \/ ~MatchLit(h, e, <<"=">>) THEN <<>>
     ELSE IF MatchLit(h, e + 1, <<"U","T","F","-","8","'","'">>) /\ RunLen(h, e + 8) > 0
       THEN SubSeq(h, e + 8, e + 7 + RunLen(h, e + 8))
     ELSE IF MatchLit(h, e + 1, <<"\"">>) /\ RunLen(h, e + 2) > 0
       THEN SubSeq(h, e + 2, e + 1 + RunLen(h, e + 2))
     ELSE SubSeq(h, e + 1, e + RunLen(h, e + 1))

\* header.match(...): the capture group of the leftmost match, <<>> when
\* there is no match (the group is never empty in a match).
RegexMatch(h) ==
  IF \E p \in 1..Len(h) : RegexAt(h, p) # <<>>
  THEN RegexAt(h, CHOOSE p \in 1..Len(h) :
                    /\ RegexAt(h, p) # <<>>
                    /\ \A q \in 1..(p - 1) : RegexAt(h, q) = <<>>)
  ELSE <<>>

\* The value of a hexadecimal digit, -1 for anything else.
HexValue(c) ==
  IF \E i \in 1..16 : HexDigits[i] = Lower(c)
  THEN (CHOOSE i \in 1..16 : HexDigits[i] = Lower(c)) - 1
  ELSE -1

\* decodeURIComponent(s) from position p on, acc being the text decoded so
\* far: [ok, s]; ok is FALSE where the code catches a URIError. An escape of
\* a byte above 0x7F is decoded as UTF-8 by the runtime; not followed by its
\* continuation bytes it is a URIError, and the inputs here carry no
\* multi-byte sequences.
RECURSIVE DecodeFrom(_, _, _)
DecodeFrom(s, p, acc) ==
  IF p > Len(s) THEN [ok |-> TRUE, s |-> acc]
  ELSE IF s[p] # "%" THEN DecodeFrom(s, p + 1, Append(acc, s[p]))
  ELSE IF p + 2 > Len(s) \/ HexValue(s[p + 1]) < 0 \/ HexValue(s[p + 2]) < 0
    THEN [ok |-> FALSE, s |-> <<>>]
  ELSE IF HexValue(s[p + 1]) > 7 THEN [ok |-> FALSE, s |-> <<>>]
  ELSE DecodeFrom(s, p + 3,
                  Append(acc, Ascii[16 * HexValue(s[p + 1]) + HexValue(s[p + 2]) + 1]))

decodeURIComponent(s) == DecodeFrom(s, 1, <<>>)

\* Lines 37-42: the capture group percent-decoded, or as it is.
DecodedOrRaw(raw) ==
  Let(decodeURIComponent(raw), LAMBDA decoded : IF decoded.ok THEN decoded.s ELSE raw)

\* parseContentDispositionFilename(header?: string): string | undefined
parseContentDispositionFilename(header) ==
  IF ~Truthy(header) THEN Undefined
  ELSE Let(RegexMatch(header.s),
           LAMBDA raw : IF raw = <<>> THEN Undefined ELSE Str(DecodedOrRaw(raw)))

\* ------------------------------------------------------- fileNameFromUrl

\* s.split(sep): the pieces of s between the characters of seps.
RECURSIVE Split(_, _, _)
Split(s, seps, acc) ==
  Let(FindAny(s, 1, seps),
      LAMBDA cut : IF cut > Len(s) THEN Append(acc, s)
                   ELSE Split(From(s, cut + 1), seps, Append(acc, SubSeq(s, 1, cut - 1))))

\* The scheme of a URL string: the position of its colon, 0 when the string
\* does not start with a scheme (ALPHA *( ALPHA / DIGIT / "+" / "-" / "." ) ":").
SchemeEnd(u) ==
  Let(FindAny(u, 1, {":"}),
      LAMBDA colon :
        IF /\ colon <= Len(u)
           /\ colon > 1
           /\ IsAlpha(u[1])
           /\ \A i \in 2..(colon - 1) :
                IsAlpha(u[i]) \/ u[i] \in Digits \/ u[i] \in {"+", "-", "."}
        THEN colon ELSE 0)

SpecialSchemes == {<<"h","t","t","p">>, <<"h","t","t","p","s">>, <<"w","s">>, <<"w","s","s">>, <<"f","t","p">>}

\* The path percent-encode set of the URL parser, within printable ASCII.
PathEncode(c) ==
  CASE c = " " -> <<"%","2","0">>
    [] c = "\"" -> <<"%","2","2">>
    [] c = "<" -> <<"%","3","C">>
    [] c = ">" -> <<"%","3","E">>
    [] c = "<60>" -> <<"%","6","0">>
    [] c = "{" -> <<"%","7","B">>
    [] c = "}" -> <<"%","7","D">>
    [] OTHER -> <<c>>

RECURSIVE EncodePath(_)
EncodePath(s) ==
  IF s = <<>> THEN <<>> ELSE PathEncode(Head(s)) \o EncodePath(Tail(s))

\* acc without its last segment.
Shorten(acc) == IF acc = <<>> THEN <<>> ELSE SubSeq(acc, 1, Len(acc) - 1)

\* The URL parser's path state over the segments of a path: "." is dropped,
\* ".." removes the segment before it, and a dot segment in last place
\* leaves an empty last segment.
RECURSIVE PathSegments(_, _)
PathSegments(segs, acc) ==
  IF segs = <<>> THEN acc
  ELSE IF Head(segs) = <<".",".">>
    THEN PathSegments(Tail(segs),
                      Shorten(acc) \o (IF Len(segs) = 1 THEN <<<<>>>> ELSE <<>>))
  ELSE IF Head(segs) = <<".">>
    THEN PathSegments(Tail(segs), acc \o (IF Len(segs) = 1 THEN <<<<>>>> ELSE <<>>))
  ELSE PathSegments(Tail(segs), Append(acc, EncodePath(Head(segs))))

UrlFail == [ok |-> FALSE, segments |-> <<>>]

\* The path of a URL after its authority: path is the text up to the query
\* or fragment.
UrlPath(path, opaque, slashes) ==
  IF opaque THEN [ok |-> TRUE, segments |-> Split(path, {"/"}, <<>>)]
  ELSE [ok |-> TRUE,
        segments |-> PathSegments(
          Split(IF path # <<>> /\ path[1] \in slashes THEN Tail(path) ELSE path,
                slashes, <<>>),
          <<>>)]

\* The URL after "scheme:" when the scheme is special: slashes and
\* backslashes are skipped, the host runs to the next of / \ ? # and must
\* not be empty, and the path follows.
SpecialUrl(rest) ==
  Let(SkipAll(rest, 1, {"/", "\\"}),
      LAMBDA hostAt :
        Let(FindAny(rest, hostAt, {"/", "\\", "?", "#"}),
            LAMBDA hostEnd :
              IF hostEnd = hostAt \/ \E i \in hostAt..(hostEnd - 1) : rest[i] = " "
              THEN UrlFail
              ELSE UrlPath(SubSeq(rest, hostEnd, FindAny(rest, hostEnd, {"?", "#"}) - 1),
                           FALSE, {"/", "\\"})))

\* The URL after "scheme:" when the scheme is not special: an authority
\* after "//", else a path, opaque unless it starts with a slash.
OtherUrl(rest) ==
  Let(IF MatchExact(rest, 1, <<"/","/">>) THEN FindAny(rest, 3, {"/", "?", "#"}) ELSE 1,
      LAMBDA pathAt :
        UrlPath(SubSeq(rest, pathAt, FindAny(rest, pathAt, {"?", "#"}) - 1),
                pathAt = 1 /\ ~MatchExact(rest, 1, <<"/">>), {"/"}))

\* The URL from its scheme on; colon is the position of the scheme's colon.
SchemeUrl(url, colon) ==
  IF colon = 0 THEN UrlFail
  ELSE IF ToLowerCase(SubSeq(url, 1, colon - 1)) \in SpecialSchemes
    THEN Let(From(url, colon + 1), LAMBDA rest : SpecialUrl(rest))
  ELSE Let(From(url, colon + 1), LAMBDA rest : OtherUrl(rest))

\* The C0 controls and the space, which the URL parser strips from both ends.
UrlSpace == {Ascii[i] : i \in 1..33}

RECURSIVE UrlTrimEnd(_)
UrlTrimEnd(s) ==
  IF s # <<>> /\ s[Len(s)] \in UrlSpace THEN UrlTrimEnd(SubSeq(s, 1, Len(s) - 1)) ELSE s

\* new URL(url).pathname.split('/'): [ok, segments]; ok is FALSE where the
\* constructor throws (no scheme, or a special scheme with an empty host).
\* The segments are those of the pathname without its leading slash.
ParseUrlPath(url) ==
  Let(UrlTrimEnd(From(url, SkipAll(url, 1, UrlSpace))),
      LAMBDA input : Let(SchemeEnd(input), LAMBDA colon : SchemeUrl(input, colon)))

\* segments.filter(Boolean).pop(): the last non-empty segment, <<>> if none.
RECURSIVE LastNonEmpty(_)
LastNonEmpty(segs) ==
  IF segs = <<>> THEN <<>>
  ELSE IF segs[Len(segs)] # <<>> THEN segs[Len(segs)]
  ELSE LastNonEmpty(SubSeq(segs, 1, Len(segs) - 1))

\* fileNameFromUrl(url: string): string | undefined
fileNameFromUrl(url) ==
  Let(ParseUrlPath(url),
      LAMBDA parsed :
        IF ~parsed.ok THEN Undefined
        ELSE Let(LastNonEmpty(parsed.segments),
                 LAMBDA name : IF name = <<>> THEN Undefined ELSE Str(name)))

\* ------------------------------------------------------- parseJsonField

\* The white space String.prototype.trim removes, within ASCII.
TrimSpace == {" ", "<09>", "<0A>", "<0B>", "<0C>", "<0D>"}

\* The white space of the JSON grammar.
JsonSpace == {" ", "<09>", "<0A>", "<0D>"}

\* The characters a JSON string cannot hold unescaped, and the backslash.
JsonControl == {Ascii[i] : i \in 1..32} \cup {"\\"}

RECURSIVE TrimEnd(_)
TrimEnd(s) ==
  IF s # <<>> /\ s[Len(s)] \in TrimSpace THEN TrimEnd(SubSeq(s, 1, Len(s) - 1)) ELSE s

\* value.trim()
Trim(s) == TrimEnd(From(s, SkipAll(s, 1, TrimSpace)))

\* The number written by the digits of s.
RECURSIVE DigitsToNat(_)
DigitsToNat(s) ==
  IF s = <<>> THEN 0
  ELSE 10 * DigitsToNat(SubSeq(s, 1, Len(s) - 1)) + HexValue(s[Len(s)])

\* Object property assignment while parsing: a repeated key keeps its place
\* and takes the later value.
PutMember(kids, key, v) ==
  IF \E i \in 1..Len(kids) : kids[i].k = key
  THEN [i \in 1..Len(kids) |-> IF kids[i].k = key THEN [k |-> key, v |-> v] ELSE kids[i]]
  ELSE Append(kids, [k |-> key, v |-> v])

JsonFail == [ok |-> FALSE, v |-> Undefined, next |-> 0]

JsonOk(v, next) == [ok |-> TRUE, v |-> v, next |-> next]

\* A JSON string whose opening quote is at i.
JsonString(s, i) ==
  Let(FindAny(s, i + 1, {"\""}),
      LAMBDA close :
        IF close > Len(s) \/ \E j \in (i + 1)..(close - 1) : s[j] \in JsonControl
        THEN JsonFail
        ELSE JsonOk(Str(SubSeq(s, i + 1, close - 1)), close + 1))

\* A JSON integer whose first digit is at first: a leading zero ends it.
JsonNumber(s, first, negative) ==
  Let(IF first <= Len(s) /\ s[first] = "0" THEN first + 1 ELSE SkipAll(s, first, Digits),
      LAMBDA stop :
        IF stop = first THEN JsonFail
        ELSE Let(DigitsToNat(SubSeq(s, first, stop - 1)),
                 LAMBDA magnitude : JsonOk(Num(IF negative THEN -magnitude ELSE magnitude), stop)))

\* JSON.parse's grammar from position p of s: [ok, v, next], next being the
\* position after the value. Covered: white space, null, true, false,
\* integers, strings without escape sequences, arrays and objects (keys in
\* insertion order). Fractions, exponents, backslash escapes and
\* integer-like keys are outside the inputs drawn here.
RECURSIVE JsonValue(_, _), JsonElements(_, _, _), JsonMembers(_, _, _), JsonMember(_, _, _, _)
JsonValue(s, p) ==
  Let(SkipAll(s, p, JsonSpace),
      LAMBDA i :
        IF i > Len(s) THEN JsonFail
        ELSE IF MatchExact(s, i, <<"n","u","l","l">>) THEN JsonOk(Null, i + 4)
        ELSE IF MatchExact(s, i, <<"t","r","u","e">>) THEN JsonOk(Bool(TRUE), i + 4)
        ELSE IF MatchExact(s, i, <<"f","a","l","s","e">>) THEN JsonOk(Bool(FALSE), i + 5)
        ELSE IF s[i] = "\"" THEN JsonString(s, i)
        ELSE IF s[i] = "-" THEN JsonNumber(s, i + 1, TRUE)
        ELSE IF s[i] \in Digits THEN JsonNumber(s, i, FALSE)
        ELSE IF s[i] = "["
          THEN Let(SkipAll(s, i + 1, JsonSpace),
                   LAMBDA inner : IF inner <= Len(s) /\ s[inner] = "]"
                                  THEN JsonOk(Arr(<<>>), inner + 1)
                                  ELSE JsonElements(s, i + 1, <<>>))
        ELSE IF s[i] = "{"
          THEN Let(SkipAll(s, i + 1, JsonSpace),
                   LAMBDA inner : IF inner <= Len(s) /\ s[inner] = "}"
                                  THEN JsonOk(Obj(<<>>), inner + 1)
                                  ELSE JsonMembers(s, i + 1, <<>>))
        ELSE JsonFail)

JsonElements(s, p, acc) ==
  Let(JsonValue(s, p),
      LAMBDA el :
        IF ~el.ok THEN JsonFail
        ELSE Let(SkipAll(s, el.next, JsonSpace),
                 LAMBDA j :
                   IF j > Len(s) THEN JsonFail
                   ELSE IF s[j] = "," THEN JsonElements(s, j + 1, Append(acc, el.v))
                   ELSE IF s[j] = "]" THEN JsonOk(Arr(Append(acc, el.v)), j + 1)
                   ELSE JsonFail))

JsonMembers(s, p, acc) ==
  Let(SkipAll(s, p, JsonSpace),
      LAMBDA i :
        IF i > Len(s) \/ s[i] # "\"" THEN JsonFail
        ELSE Let(JsonString(s, i),
                 LAMBDA key :
                   IF ~key.ok THEN JsonFail
                   ELSE Let(SkipAll(s, key.next, JsonSpace),
                            LAMBDA colon :
                              IF colon > Len(s) \/ s[colon] # ":" THEN JsonFail
                              ELSE JsonMember(s, colon + 1, acc, key.v.s))))

JsonMember(s, p, acc, key) ==
  Let(JsonValue(s, p),
      LAMBDA val :
        IF ~val.ok THEN JsonFail
        ELSE Let(SkipAll(s, val.next, JsonSpace),
                 LAMBDA j :
                   IF j > Len(s) THEN JsonFail
                   ELSE IF s[j] = "," THEN JsonMembers(s, j + 1, PutMember(acc, key, val.v))
                   ELSE IF s[j] = "}" THEN JsonOk(Obj(PutMember(acc, key, val.v)), j + 1)
                   ELSE JsonFail))

\* JSON.parse(s): [ok, v]; ok is FALSE where it throws a SyntaxError.
JsonParse(s) ==
  Let(JsonValue(s, 1),
      LAMBDA top :
        IF top.ok /\ SkipAll(s, top.next, JsonSpace) > Len(s)
        THEN [ok |-> TRUE, v |-> top.v]
        ELSE [ok |-> FALSE, v |-> Undefined])

\* JSON.stringify(v) of a value JSON.parse can produce (no character of the
\* strings drawn here needs escaping).
RECURSIVE JsonStringify(_), JsonJoin(_, _, _)
JsonStringify(v) ==
  CASE v.ty = "null" -> <<"n","u","l","l">>
    [] v.ty = "undefined" -> <<"n","u","l","l">>
    [] v.ty = "boolean" -> IF v.b THEN <<"t","r","u","e">> ELSE <<"f","a","l","s","e">>
    [] v.ty = "number" -> String(v)
    [] v.ty = "string" -> <<"\"">> \o v.s \o <<"\"">>
    [] v.ty = "array" -> <<"[">> \o JsonJoin(v.kids, 1, FALSE) \o <<"]">>
    [] OTHER -> <<"{">> \o JsonJoin(v.kids, 1, TRUE) \o <<"}">>

JsonJoin(kids, i, keyed) ==
  IF i > Len(kids) THEN <<>>
  ELSE (IF i > 1 THEN <<",">> ELSE <<>>)
       \o (IF keyed THEN <<"\"">> \o kids[i].k \o <<"\"",":">> ELSE <<>>)
       \o JsonStringify(kids[i].v)
       \o JsonJoin(kids, i + 1, keyed)

Parsed(v) == [ok |-> TRUE, v |-> v, message |-> <<>>]

\* throw new NodeOperationError(node, message)
Invalid(message) == [ok |-> FALSE, v |-> Undefined, message |-> message]
\* The parse with the SyntaxError swallowed: a text that does not parse
\* yields undefined.
ParseJsonTextLenient(text, label) ==
  Let(Trim(text),
      LAMBDA trimmed :
        IF trimmed = <<>> THEN Parsed(Undefined)
        ELSE Let(JsonParse(trimmed),
                 LAMBDA parsed :
                   IF parsed.ok THEN Parsed(parsed.v) ELSE Parsed(Undefined)))

\* Lines 63-71: a string value is trimmed and parsed.
ParseJsonText(text, label) ==
  Let(Trim(text),
      LAMBDA trimmed :
        IF trimmed = <<>> THEN Parsed(Undefined)
        ELSE Let(JsonParse(trimmed),
                 LAMBDA parsed :
                   IF parsed.ok THEN Parsed(parsed.v)
                   ELSE Invalid(<<"C","a","n","n","o","t"," ","p","a","r","s","e"," ">> \o label \o <<" ","a","s"," ","J","S","O","N",".">>)))

\* parseJsonField(node, value, label): [ok, v, message]; ok is FALSE where
\* it throws a NodeOperationError with that message.
parseJsonField(value, label) ==
  IF value.ty \in {"undefined", "null"} \/ value = Str(<<>>) THEN Parsed(Undefined)
  ELSE IF TypeOf(value) = "object" THEN Parsed(value)
  ELSE IF TypeOf(value) = "string" THEN ParseJsonText(value.s, label)
  ELSE Invalid(<<"U","n","s","u","p","p","o","r","t","e","d"," ">> \o label \o <<" ","v","a","l","u","e"," ","t","y","p","e",".">>)

\* ------------------------------------------------------- sanitizeBaseUrl

\* url.replace(/\/+$/, '')
RECURSIVE sanitizeBaseUrl(_)
sanitizeBaseUrl(url) ==
  IF url # <<>> /\ url[Len(url)] = "/" THEN sanitizeBaseUrl(SubSeq(url, 1, Len(url) - 1))
  ELSE url

\* --------------------------------------------------- execute, per item

\* Buffer.from(rawBody) / rawBody itself: the bytes of the downloaded body,
\* whether the transport returned a Buffer, an ArrayBuffer or a string.
attachmentBuffer(rawBody) ==
  IF rawBody.kind = "string"
  THEN [i \in 1..Len(rawBody.text) |-> ByteOf(rawBody.text[i])]
  ELSE rawBody.bytes

\* headerFileName
headerFileName(headers) ==
  Let(getHeaderValue(headers, <<"c","o","n","t","e","n","t","-","d","i","s","p","o","s","i","t","i","o","n">>),
      LAMBDA header : parseContentDispositionFilename(header))
\* The file name with the URL's segment taken before the header's name.
derivedFileNameUrlFirst(fileNameOverride, headers, attachmentUrl) ==
  Let(<<Str(fileNameOverride), fileNameFromUrl(attachmentUrl),
        headerFileName(headers), Str(<<"a","t","t","a","c","h","m","e","n","t">>)>>,
      LAMBDA names : FirstTruthy(names))

\* derivedFileName = fileNameOverride || headerFileName || fileNameFromUrl(attachmentUrl) || 'attachment'
derivedFileName(fileNameOverride, headers, attachmentUrl) ==
  Let(<<Str(fileNameOverride), headerFileName(headers),
        fileNameFromUrl(attachmentUrl), Str(<<"a","t","t","a","c","h","m","e","n","t">>)>>,
      LAMBDA names : FirstTruthy(names))
\* The MIME type with the header taken before the override.
mimeTypeHeaderFirst(additionalFields, headers) ==
  Let(<<getHeaderValue(headers, <<"c","o","n","t","e","n","t","-","t","y","p","e">>),
        Get(additionalFields, <<"a","t","t","a","c","h","m","e","n","t","M","i","m","e","T","y","p","e">>),
        Str(<<"a","p","p","l","i","c","a","t","i","o","n","/","o","c","t","e","t","-","s","t","r","e","a","m">>)>>,
      LAMBDA types : FirstTruthy(types))

\* mimeType = additionalFields.attachmentMimeType || getHeaderValue(headers, 'content-type')
\*            || 'application/octet-stream'
mimeType(additionalFields, headers) ==
  Let(<<Get(additionalFields, <<"a","t","t","a","c","h","m","e","n","t","M","i","m","e","T","y","p","e">>),
        getHeaderValue(headers, <<"c","o","n","t","e","n","t","-","t","y","p","e">>),
        Str(<<"a","p","p","l","i","c","a","t","i","o","n","/","o","c","t","e","t","-","s","t","r","e","a","m">>)>>,
      LAMBDA types : FirstTruthy(types))

\* One part of the multipart form: a text field (value) or a file part
\* (data, with its filename and contentType options).
Field(name, value) ==
  [name |-> name, value |-> value, data |-> <<>>,
   filename |-> Undefined, contentType |-> Undefined]

FilePart(name, data, filename, contentType) ==
  [name |-> name, value |-> <<>>, data |-> data,
   filename |-> filename, contentType |-> contentType]

\* if (cond) form.append(part): what the statement adds to the form.
AppendIf(cond, part) == IF cond THEN <<part>> ELSE <<>>
\* The form with private appended on its truthiness, as the other fields are.
PlainFormPrivateIfTruthy(it, response) ==
  <<FilePart(<<"a","t","t","a","c","h","m","e","n","t","s","[","]">>, attachmentBuffer(response.body),
             derivedFileName(it.fileName, response.headers, it.attachmentUrl),
             mimeType(it.additionalFields, response.headers))>>
  \o AppendIf(/\ Get(it.additionalFields, <<"c","o","n","t","e","n","t">>) # Undefined
              /\ Get(it.additionalFields, <<"c","o","n","t","e","n","t">>) # Str(<<>>),
              Field(<<"c","o","n","t","e","n","t">>, String(Get(it.additionalFields, <<"c","o","n","t","e","n","t">>))))
  \o AppendIf(Truthy(Get(it.additionalFields, <<"m","e","s","s","a","g","e","T","y","p","e">>)),
              Field(<<"m","e","s","s","a","g","e","_","t","y","p","e">>, String(Get(it.additionalFields, <<"m","e","s","s","a","g","e","T","y","p","e">>))))
  \o AppendIf(Truthy(Get(it.additionalFields, <<"p","r","i","v","a","t","e">>)), Field(<<"p","r","i","v","a","t","e">>, <<"t","r","u","e">>))
  \o AppendIf(Truthy(Get(it.additionalFields, <<"c","o","n","t","e","n","t","T","y","p","e">>)),
              Field(<<"c","o","n","t","e","n","t","_","t","y","p","e">>, String(Get(it.additionalFields, <<"c","o","n","t","e","n","t","T","y","p","e">>))))

\* Lines 248-266: attachments[], content, message_type, private and
\* content_type, in the order they are appended.
PlainForm(it, response) ==
  <<FilePart(<<"a","t","t","a","c","h","m","e","n","t","s","[","]">>, attachmentBuffer(response.body),
             derivedFileName(it.fileName, response.headers, it.attachmentUrl),
             mimeType(it.additionalFields, response.headers))>>
  \o AppendIf(/\ Get(it.additionalFields, <<"c","o","n","t","e","n","t">>) # Undefined
              /\ Get(it.additionalFields, <<"c","o","n","t","e","n","t">>) # Str(<<>>),
              Field(<<"c","o","n","t","e","n","t">>, String(Get(it.additionalFields, <<"c","o","n","t","e","n","t">>))))
  \o AppendIf(Truthy(Get(it.additionalFields, <<"m","e","s","s","a","g","e","T","y","p","e">>)),
              Field(<<"m","e","s","s","a","g","e","_","t","y","p","e">>, String(Get(it.additionalFields, <<"m","e","s","s","a","g","e","T","y","p","e">>))))
  \o AppendIf(HasOwn(it.additionalFields, <<"p","r","i","v","a","t","e">>),
              Field(<<"p","r","i","v","a","t","e">>, IF Truthy(Get(it.additionalFields, <<"p","r","i","v","a","t","e">>))
                               THEN <<"t","r","u","e">> ELSE <<"f","a","l","s","e">>))
  \o AppendIf(Truthy(Get(it.additionalFields, <<"c","o","n","t","e","n","t","T","y","p","e">>)),
              Field(<<"c","o","n","t","e","n","t","_","t","y","p","e">>, String(Get(it.additionalFields, <<"c","o","n","t","e","n","t","T","y","p","e">>))))

\* if (parsed) form.append(name, JSON.stringify(parsed))
JsonPart(name, parsed) ==
  AppendIf(Truthy(parsed.v), Field(name, JsonStringify(parsed.v)))

\* Lines 268-275 after lines 248-266: [ok, form, message]; ok is FALSE where
\* a JSON field throws, Content Attributes being parsed before Template Params.
AssembleForm(it, response) ==
  Let(parseJsonField(Get(it.additionalFields, <<"c","o","n","t","e","n","t","A","t","t","r","i","b","u","t","e","s">>), <<"C","o","n","t","e","n","t"," ","A","t","t","r","i","b","u","t","e","s">>),
      LAMBDA contentAttributes :
        IF ~contentAttributes.ok
        THEN [ok |-> FALSE, form |-> <<>>, message |-> contentAttributes.message]
        ELSE Let(parseJsonField(Get(it.additionalFields, <<"t","e","m","p","l","a","t","e","P","a","r","a","m","s">>), <<"T","e","m","p","l","a","t","e"," ","P","a","r","a","m","s">>),
                 LAMBDA templateParams :
                   IF ~templateParams.ok
                   THEN [ok |-> FALSE, form |-> <<>>, message |-> templateParams.message]
                   ELSE [ok |-> TRUE,
                         form |-> PlainForm(it, response)
                                  \o JsonPart(<<"c","o","n","t","e","n","t","_","a","t","t","r","i","b","u","t","e","s">>, contentAttributes)
                                  \o JsonPart(<<"t","e","m","p","l","a","t","e","_","p","a","r","a","m","s">>, templateParams),
                         message |-> <<>>]))

\* `${baseUrl}/api/v1/accounts/${accountId}/conversations/${conversationId}/messages`
requestUrl(base, accountId, conversationId) ==
  base \o <<"/","a","p","i","/","v","1","/","a","c","c","o","u","n","t","s","/">> \o NatToString(accountId)
       \o <<"/","c","o","n","v","e","r","s","a","t","i","o","n","s","/">> \o NatToString(conversationId) \o <<"/","m","e","s","s","a","g","e","s">>
\* The response parsed whatever its type: JSON.parse(String(response)).
responseJsonAlwaysParsed(response) == JsonParse(String(response))

\* typeof response === 'string' ? JSON.parse(response) : response, as [ok, v].
responseJson(response) ==
  IF TypeOf(response) = "string" THEN JsonParse(response.s)
  ELSE [ok |-> TRUE, v |-> response]

\* An error value: its name and message.
Error(name, message) == [name |-> name, message |-> message]

\* The message of the SyntaxError JSON.parse throws.
SyntaxError == Error("SyntaxError", <<"U","n","e","x","p","e","c","t","e","d"," ","t","o","k","e","n"," ","i","n"," ","J","S","O","N">>)

\* What execute throws: cause is the error wrapped (NodeApiError's second
\* argument) and context the options passed with it.
Thrown(name, message, cause, context) ==
  [name |-> name, message |-> message, cause |-> cause, context |-> context]

NoError == Error("", <<>>)

NotThrown == Thrown("", <<>>, NoError, <<>>)

\* { json: responseJson, pairedItem: { item: index } }
ResultItem(json, i) == [json |-> json, pairedItem |-> [item |-> i]]

\* { json: { error: error.message }, pairedItem: { item: index } }
ErrorItem(error, i) ==
  [json |-> Obj(<<[k |-> <<"e","r","r","o","r">>, v |-> Str(error.message)]>>), pairedItem |-> [item |-> i]]

\* new NodeApiError(node, error): error is the cause, and the context holds
\* the options passed, which are none.
NodeApiError(error) == Thrown("NodeApiError", error.message, error, <<>>)

\* --------------------------------------------------------------- state

VARIABLES
  pc,             \* where execute is: "start", "loop", "download", "submit",
                  \* "returned", "thrown"
  nItems,         \* items.length
  continueOnFail, \* this.continueOnFail()
  credentials,    \* the entries of the chatwootApi credentials
  baseUrl,        \* baseUrl
  index,          \* index
  item,           \* the parameters read for items[index]
  downloadResponse, \* downloadResponse
  requestOptions, \* the options of the request in flight
  requests,       \* every request issued, in order, with its outcome
  returnItems,    \* returnItems
  caught,         \* every error the catch block received, with its item
  thrown          \* what execute threw

vars ==
  <<pc, nItems, continueOnFail, credentials, baseUrl, index, item,
    downloadResponse, requestOptions, requests, returnItems, caught, thrown>>

\* The largest batch.
MaxItems == 2

NoItem ==
  [accountId |-> 0, conversationId |-> 0, attachmentUrl |-> <<>>,
   fileName |-> <<>>, additionalFields |-> <<>>]

NoRequest == [method |-> "", url |-> <<>>, body |-> <<>>]

Response(body, headers) == [body |-> body, headers |-> headers]

NoResponse == Response([kind |-> "", bytes |-> <<>>, text |-> <<>>], <<>>)

\* The credentials a workflow can hold: no url, an empty url, a url, and a
\* url with trailing slashes.
Credentials ==
  { <<>>,
    <<[k |-> <<"u","r","l">>, v |-> Str(<<>>)]>>,
    <<[k |-> <<"u","r","l">>, v |-> Str(<<"h","t","t","p","s",":","/","/","c","w",".","t","e","s","t">>)]>>,
    <<[k |-> <<"u","r","l">>, v |-> Str(<<"h","t","t","p","s",":","/","/","c","w",".","t","e","s","t","/","/">>)]>> }

Init ==
  /\ pc = "start"
  /\ nItems \in 0..MaxItems
  /\ continueOnFail \in BOOLEAN
  /\ credentials \in Credentials
  /\ baseUrl = <<>>
  /\ index = 0
  /\ item = NoItem
  /\ downloadResponse = NoResponse
  /\ requestOptions = NoRequest
  /\ requests = <<>>
  /\ returnItems = <<>>
  /\ caught = <<>>
  /\ thrown = NotThrown

\* A request as logged: its method, the item it is for, its outcome
\* ("pending", "ok", "failed") and, for a completed POST, the response.
Request(method, i) ==
  [method |-> method, item |-> i, outcome |-> "pending", response |-> Undefined]

\* The log with the request in flight completed.
Completed(outcome, response) ==
  [requests EXCEPT ![Len(requests)] =
     [@ EXCEPT !.outcome = outcome, !.response = response]]
\* The credentials check moved into the loop: execute starts the loop first.
StartUnchecked ==
  /\ pc = "start"
  /\ pc' = "loop"
  /\ baseUrl' = sanitizeBaseUrl(String(Get(credentials, <<"u","r","l">>)))
  /\ UNCHANGED <<nItems, continueOnFail, credentials, index, item, downloadResponse,
                 requestOptions, requests, returnItems, caught, thrown>>

\* Lines 201-210: the credentials are read and checked before the loop.
Start ==
  /\ pc = "start"
  /\ IF ~Truthy(Get(credentials, <<"u","r","l">>))
     THEN /\ pc' = "thrown"
          /\ thrown' = Thrown("NodeOperationError",
                              <<"C","h","a","t","W","o","o","t"," ","A","P","I"," ","U","R","L"," ","i","s"," ","m","i","s","s","i","n","g"," ","i","n"," ","c","r","e","d","e","n","t","i","a","l","s",".">>,
                              NoError, <<>>)
          /\ UNCHANGED baseUrl
     ELSE /\ pc' = "loop"
          /\ baseUrl' = sanitizeBaseUrl(String(Get(credentials, <<"u","r","l">>)))
          /\ UNCHANGED thrown
  /\ UNCHANGED <<nItems, continueOnFail, credentials, index, item,
                 downloadResponse, requestOptions, requests, returnItems, caught>>

\* Lines 212-226: the loop test holds, the item's parameters are read and
\* the download GET is issued.
BeginItem(Items) ==
  /\ pc = "loop"
  /\ index < nItems
  /\ \E it \in Items :
       /\ item' = it
       /\ requestOptions' = [method |-> "GET", url |-> it.attachmentUrl, body |-> <<>>]
  /\ requests' = Append(requests, Request("GET", index))
  /\ downloadResponse' = NoResponse
  /\ pc' = "download"
  /\ UNCHANGED <<nItems, continueOnFail, credentials, baseUrl, index,
                 returnItems, caught, thrown>>
\* The catch block with break in place of continue.
CatchBreaks(error) ==
  /\ caught' = Append(caught, [item |-> index, error |-> error])
  /\ IF continueOnFail
     THEN /\ returnItems' = Append(returnItems, ErrorItem(error, index))
          /\ index' = nItems
          /\ pc' = "loop"
          /\ UNCHANGED thrown
     ELSE /\ thrown' = NodeApiError(error)
          /\ pc' = "thrown"
          /\ UNCHANGED <<returnItems, index>>

\* The catch block without the test of continueOnFail().
CatchContinues(error) ==
  /\ caught' = Append(caught, [item |-> index, error |-> error])
  /\ returnItems' = Append(returnItems, ErrorItem(error, index))
  /\ index' = index + 1
  /\ pc' = "loop"
  /\ UNCHANGED thrown

\* The catch block retrying the item instead of recording its error.
CatchRetries(error) ==
  /\ caught' = Append(caught, [item |-> index, error |-> error])
  /\ IF continueOnFail
     THEN /\ pc' = "loop"
          /\ UNCHANGED <<returnItems, index, thrown>>
     ELSE /\ thrown' = NodeApiError(error)
          /\ pc' = "thrown"
          /\ UNCHANGED <<returnItems, index>>

\* Lines 288-294: the catch block, entered with error.
Catch(error) ==
  /\ caught' = Append(caught, [item |-> index, error |-> error])
  /\ IF continueOnFail
     THEN /\ returnItems' = Append(returnItems, ErrorItem(error, index))
          /\ index' = index + 1
          /\ pc' = "loop"
          /\ UNCHANGED thrown
     ELSE /\ thrown' = NodeApiError(error)
          /\ pc' = "thrown"
          /\ UNCHANGED <<returnItems, index>>

\* Line 226 throws: the download failed.
DownloadFails ==
  /\ pc = "download"
  /\ requests' = Completed("failed", Undefined)
  /\ Catch(Error("Error", <<"c","o","n","n","e","c","t"," ","E","C","O","N","N","R","E","F","U","S","E","D">>))
  /\ UNCHANGED <<nItems, continueOnFail, credentials, baseUrl, item,
                 downloadResponse, requestOptions>>

\* Lines 226-284: the download returned; the metadata is derived, the form
\* assembled and the JSON fields parsed, and the submit POST is issued,
\* unless a JSON field throws.
DownloadReturns(Responses) ==
  /\ pc = "download"
  /\ \E response \in Responses :
     \E assembled \in {AssembleForm(item, response)} :
       /\ downloadResponse' = response
       /\ IF assembled.ok
          THEN /\ requestOptions' =
                    [method |-> "POST",
                     url |-> requestUrl(baseUrl, item.accountId, item.conversationId),
                     body |-> assembled.form]
               /\ requests' = Append(Completed("ok", Undefined), Request("POST", index))
               /\ pc' = "submit"
               /\ UNCHANGED <<index, returnItems, caught, thrown>>
          ELSE /\ requests' = Completed("ok", Undefined)
               /\ Catch(Error("NodeOperationError", assembled.message))
               /\ UNCHANGED requestOptions
  /\ UNCHANGED <<nItems, continueOnFail, credentials, baseUrl, item>>

\* Line 284 throws: the submit failed (transport or non-success status).
SubmitFails ==
  /\ pc = "submit"
  /\ requests' = Completed("failed", Undefined)
  /\ Catch(Error("Error", <<"R","e","q","u","e","s","t"," ","f","a","i","l","e","d"," ","w","i","t","h"," ","s","t","a","t","u","s"," ","c","o","d","e"," ","4","2","2">>))
  /\ UNCHANGED <<nItems, continueOnFail, credentials, baseUrl, item,
                 downloadResponse, requestOptions>>

\* Lines 284-287: the submit returned; the response is normalized and the
\* result pushed, unless JSON.parse throws.
SubmitReturns(Responses) ==
  /\ pc = "submit"
  /\ \E response \in Responses :
     \E normalized \in {responseJson(response)} :
       /\ requests' = Completed("ok", response)
       /\ IF normalized.ok
          THEN /\ returnItems' = Append(returnItems, ResultItem(normalized.v, index))
               /\ index' = index + 1
               /\ pc' = "loop"
               /\ UNCHANGED <<caught, thrown>>
          ELSE Catch(SyntaxError)
  /\ UNCHANGED <<nItems, continueOnFail, credentials, baseUrl, item,
                 downloadResponse, requestOptions>>

\* Lines 212 and 297: the loop test fails and execute returns [returnItems].
Return ==
  /\ pc = "loop"
  /\ index >= nItems
  /\ pc' = "returned"
  /\ UNCHANGED <<nItems, continueOnFail, credentials, baseUrl, index, item,
                 downloadResponse, requestOptions, requests, returnItems, caught, thrown>>

\* ---------------------------------------------------------------- inputs

\* { id: 7 }, the created message.
Created == Obj(<<[k |-> <<"i","d">>, v |-> Num(7)]>>)

\* What the transport returns for the POST: the parsed message, its JSON
\* text, and a text that is not JSON.
SubmitResponses == {Created, Str(<<"{","\"","i","d","\"",":","7","}">>), Str(<<"O","K">>)}

Png == [kind |-> "buffer", bytes |-> <<137, 80>>, text |-> <<>>]

AnItem(url, fileName, additionalFields) ==
  [accountId |-> 1, conversationId |-> 42, attachmentUrl |-> url,
   fileName |-> fileName, additionalFields |-> additionalFields]

\* The items of the batches of Spec: a plain item, one with fields of every
\* kind, and one for each JSON field that does not parse.
Items ==
  { AnItem(<<"h","t","t","p","s",":","/","/","x",".","t","e","s","t","/","f","i","l","e","s","/","i","m","g",".","p","n","g","?","x","=","1">>, <<>>, <<>>),
    AnItem(<<"h","t","t","p","s",":","/","/","x",".","t","e","s","t","/","a",".","p","d","f">>, <<"b",".","p","d","f">>,
           <<[k |-> <<"c","o","n","t","e","n","t">>, v |-> Str(<<"h","i">>)],
             [k |-> <<"p","r","i","v","a","t","e">>, v |-> Bool(FALSE)],
             [k |-> <<"c","o","n","t","e","n","t","A","t","t","r","i","b","u","t","e","s">>, v |-> Str(<<"{","\"","a","\"",":","1","}">>)]>>),
    AnItem(<<"h","t","t","p","s",":","/","/","x",".","t","e","s","t","/","a",".","p","d","f">>, <<>>,
           <<[k |-> <<"c","o","n","t","e","n","t","A","t","t","r","i","b","u","t","e","s">>, v |-> Str(<<"n","o","t"," ","j","s","o","n">>)]>>),
    AnItem(<<"h","t","t","p","s",":","/","/","x",".","t","e","s","t","/","a",".","p","d","f">>, <<>>,
           <<[k |-> <<"t","e","m","p","l","a","t","e","P","a","r","a","m","s">>, v |-> Num(5)]>>) }

DownloadResponses ==
  { Response(Png, <<>>),
    Response([kind |-> "string", bytes |-> <<>>, text |-> <<"h","i">>],
             <<[k |-> <<"C","o","n","t","e","n","t","-","T","y","p","e">>, v |-> Str(<<"t","e","x","t","/","p","l","a","i","n">>)],
               [k |-> <<"C","o","n","t","e","n","t","-","D","i","s","p","o","s","i","t","i","o","n">>, v |-> Str(<<"a","t","t","a","c","h","m","e","n","t",";"," ","f","i","l","e","n","a","m","e","=","\"","r",".","t","x","t","\"">>)]>>) }

Next ==
  \/ Start
  \/ BeginItem(Items)
  \/ DownloadFails
  \/ DownloadReturns(DownloadResponses)
  \/ SubmitFails
  \/ SubmitReturns(SubmitResponses)
  \/ Return

Spec == Init /\ [][Next]_vars

\* ---------------------------------------------------------------- claims

\* The json of an error result: { error: message }.
ErrorJson(message) == Obj(<<[k |-> <<"e","r","r","o","r">>, v |-> Str(message)]>>)

IsErrorJson(json) ==
  json.ty = "object" /\ Len(json.kids) = 1 /\ json.kids[1].k = <<"e","r","r","o","r">>

\* The positions in the log of the requests issued for item i by method.
RequestsFor(method, i) ==
  {r \in 1..Len(requests) : requests[r].method = method /\ requests[r].item = i}

\* The items the catch block was entered for.
FailedItems == {caught[c].item : c \in 1..Len(caught)}

CredentialsUrlSet == Truthy(Get(credentials, <<"u","r","l">>))

\* C1: in failure-tolerant mode with a non-empty credential URL, execute
\* never throws; result k is paired with item k; an item that failed has the
\* result {error: <its message>} and an item that did not has the created
\* message; and when execute returns there is exactly one result per item,
\* every item having had its download GET, and its submit POST unless it
\* failed before.
C1_OneResultPerItem ==
  (continueOnFail /\ CredentialsUrlSet) =>
    /\ pc # "thrown"
    /\ Len(returnItems) = index
    /\ \A k \in 1..Len(returnItems) : returnItems[k].pairedItem.item = k - 1
    /\ \A c \in 1..Len(caught) :
         /\ caught[c].item < Len(returnItems)
         /\ returnItems[caught[c].item + 1].json = ErrorJson(caught[c].error.message)
    /\ \A k \in 1..Len(returnItems) :
         (k - 1) \notin FailedItems =>
           /\ returnItems[k].json = Created
           /\ \E r \in RequestsFor("POST", k - 1) : requests[r].outcome = "ok"
    /\ pc = "returned" =>
         /\ Len(returnItems) = nItems
         /\ \A i \in 0..(nItems - 1) : Cardinality(RequestsFor("GET", i)) = 1

\* C1's case: a batch of two in failure-tolerant mode has returned, its
\* first item failed and its second was submitted.
C1_Witness ==
  /\ continueOnFail
  /\ pc = "returned"
  /\ nItems = 2
  /\ 0 \in FailedItems
  /\ returnItems[2].json = Created

\* C2: with the credential URL absent or empty, execute throws the
\* configuration error from its start: nothing is requested, no result or
\* error record is produced and the loop is never entered, in either mode.
C2_MissingUrlIsFatal ==
  ~CredentialsUrlSet =>
    /\ pc \in {"start", "thrown"}
    /\ requests = <<>>
    /\ returnItems = <<>>
    /\ caught = <<>>
    /\ index = 0
    /\ pc = "thrown" =>
         /\ thrown.name = "NodeOperationError"
         /\ thrown.message = <<"C","h","a","t","W","o","o","t"," ","A","P","I"," ","U","R","L"," ","i","s"," ","m","i","s","s","i","n","g"," ","i","n"," ","c","r","e","d","e","n","t","i","a","l","s",".">>

\* C2's case: a non-empty batch in failure-tolerant mode whose credentials
\* carry an empty URL has thrown.
C2_Witness ==
  /\ pc = "thrown"
  /\ Get(credentials, <<"u","r","l">>) = Str(<<>>)
  /\ continueOnFail
  /\ nItems > 0

\* C3: with continueOnFail false, once a step has failed for item i execute
\* has thrown (it does not return, so no result is returned), the loop
\* stopped at i, and no request was issued for an item after i.
C3_FailFastAborts ==
  (~continueOnFail /\ caught # <<>>) =>
    /\ pc = "thrown"
    /\ thrown.name = "NodeApiError"
    /\ Len(caught) = 1
    /\ index = caught[1].item
    /\ \A r \in 1..Len(requests) : requests[r].item <= caught[1].item

\* C3's case: the second item of a batch of two failed in fail-fast mode,
\* after the first had produced its result.
C3_Witness ==
  /\ ~continueOnFail
  /\ pc = "thrown"
  /\ nItems = 2
  /\ caught # <<>>
  /\ caught[1].item = 1
  /\ Len(returnItems) = 1

\* The JSON field values of Items that do not parse.
Unparsable == {Str(<<"n","o","t"," ","j","s","o","n">>), Num(5)}

\* C8: requests are issued one item after another and one at a time (only
\* the last can be pending); an item has at most one GET and at most one
\* POST; a POST directly follows the successful GET of its item, and is in
\* flight only for an item whose JSON fields both parse.
C8_SingleAttemptSequence ==
  /\ \A a \in 1..Len(requests) : \A b \in (a + 1)..Len(requests) :
       /\ requests[a].outcome # "pending"
       /\ requests[a].item <= requests[b].item
  /\ \A i \in 0..MaxItems :
       /\ Cardinality(RequestsFor("GET", i)) <= 1
       /\ Cardinality(RequestsFor("POST", i)) <= 1
  /\ \A b \in 1..Len(requests) :
       requests[b].method = "POST" =>
         /\ b > 1
         /\ requests[b - 1].method = "GET"
         /\ requests[b - 1].item = requests[b].item
         /\ requests[b - 1].outcome = "ok"
  /\ pc = "submit" =>
       /\ Get(item.additionalFields, <<"c","o","n","t","e","n","t","A","t","t","r","i","b","u","t","e","s">>) \notin Unparsable
       /\ Get(item.additionalFields, <<"t","e","m","p","l","a","t","e","P","a","r","a","m","s">>) \notin Unparsable
  /\ \A r \in 1..Len(requests) : requests[r].item <= index

\* C8's case: a batch of two has returned after a failed GET for its first
\* item and a failed POST for its second, none of them tried again.
C8_Witness ==
  /\ pc = "returned"
  /\ nItems = 2
  /\ Len(requests) = 3
  /\ requests[1].outcome = "failed"
  /\ requests[3].method = "POST"
  /\ requests[3].outcome = "failed"

\* C9: the error execute re-raises for item i carries the cause and the
\* item index i.
C9_RaisedErrorCarriesIndex ==
  (pc = "thrown" /\ caught # <<>>) =>
    /\ thrown.cause = caught[1].error
    /\ HasOwn(thrown.context, <<"i","t","e","m","I","n","d","e","x">>)
    /\ Get(thrown.context, <<"i","t","e","m","I","n","d","e","x">>) = Num(caught[1].item)

\* C10 as stated: an item's result is an {error} record only if no submit
\* POST for that item completed successfully.
C10_ErrorMeansNoPost ==
  \A k \in 1..Len(returnItems) :
    IsErrorJson(returnItems[k].json) =>
      \A r \in RequestsFor("POST", k - 1) : requests[r].outcome # "ok"

\* C10 amended: an item's result is an {error} record only if no submit POST
\* for that item completed successfully, or the POST completed and returned
\* a string that is not JSON.
C10_ErrorMeansNoPostOrBadJson ==
  \A k \in 1..Len(returnItems) :
    IsErrorJson(returnItems[k].json) =>
      \A r \in RequestsFor("POST", k - 1) :
        requests[r].outcome = "ok" => requests[r].response = Str(<<"O","K">>)

\* C10's case: an item has an {error} result although its POST completed.
C10_Witness ==
  \E k \in 1..Len(returnItems) :
    /\ IsErrorJson(returnItems[k].json)
    /\ \E r \in RequestsFor("POST", k - 1) : requests[r].outcome = "ok"

\* ------------------------------------------------ C4: the file name

\* An optional entry of an object: present with a value, or absent.
Present(v) == [present |-> TRUE, v |-> v]

Absent == [present |-> FALSE, v |-> Undefined]

Entry(key, opt) == IF opt.present THEN <<[k |-> key, v |-> opt.v]>> ELSE <<>>

\* Response headers, each with the file name its Content-Disposition
\* carries: none where the header is missing, names no file or names an
\* empty one; the quoted token; the UTF-8''-prefixed token percent-decoded;
\* the raw token where it does not decode; the first value of a
\* multi-valued header, its parameter name in upper case.
NameHeaders ==
  { [headers |-> <<>>, name |-> Undefined],
    [headers |-> <<[k |-> <<"C","o","n","t","e","n","t","-","T","y","p","e">>, v |-> Str(<<"i","m","a","g","e","/","p","n","g">>)]>>, name |-> Undefined],
    [headers |-> <<[k |-> <<"C","o","n","t","e","n","t","-","D","i","s","p","o","s","i","t","i","o","n">>, v |-> Str(<<"i","n","l","i","n","e">>)]>>, name |-> Undefined],
    [headers |-> <<[k |-> <<"C","o","n","t","e","n","t","-","D","i","s","p","o","s","i","t","i","o","n">>, v |-> Str(<<"a","t","t","a","c","h","m","e","n","t",";"," ","f","i","l","e","n","a","m","e","=","\"","\"">>)]>>,
     name |-> Undefined],
    [headers |-> <<[k |-> <<"C","o","n","t","e","n","t","-","D","i","s","p","o","s","i","t","i","o","n">>,
                    v |-> Str(<<"a","t","t","a","c","h","m","e","n","t",";"," ","f","i","l","e","n","a","m","e","=","\"","r","e","p","o","r","t"," ","f","i","n","a","l",".","p","d","f","\"">>)]>>,
     name |-> Str(<<"r","e","p","o","r","t"," ","f","i","n","a","l",".","p","d","f">>)],
    [headers |-> <<[k |-> <<"c","o","n","t","e","n","t","-","d","i","s","p","o","s","i","t","i","o","n">>,
                    v |-> Str(<<"a","t","t","a","c","h","m","e","n","t",";"," ","f","i","l","e","n","a","m","e","*","=","U","T","F","-","8","'","'","r","e","p","%","2","0","o","r","t",".","p","d","f">>)]>>,
     name |-> Str(<<"r","e","p"," ","o","r","t",".","p","d","f">>)],
    [headers |-> <<[k |-> <<"C","O","N","T","E","N","T","-","D","I","S","P","O","S","I","T","I","O","N">>, v |-> Str(<<"a","t","t","a","c","h","m","e","n","t",";"," ","f","i","l","e","n","a","m","e","=","%","z","z",".","t","x","t">>)]>>,
     name |-> Str(<<"%","z","z",".","t","x","t">>)],
    [headers |-> <<[k |-> <<"C","o","n","t","e","n","t","-","D","i","s","p","o","s","i","t","i","o","n">>,
                    v |-> Arr(<<Str(<<"a","t","t","a","c","h","m","e","n","t",";"," ","F","I","L","E","N","A","M","E","=","a",".","t","x","t",";"," ","s","i","z","e","=","3">>), Str(<<"i","n","l","i","n","e">>)>>)]>>,
     name |-> Str(<<"a",".","t","x","t">>)] }

\* Attachment URLs, each with its last non-empty path segment: none where
\* the path has no segment or the URL is malformed.
NameUrls ==
  { [url |-> <<"h","t","t","p","s",":","/","/","x",".","t","e","s","t","/","f","i","l","e","s","/","i","m","g",".","p","n","g","?","x","=","1">>, name |-> Str(<<"i","m","g",".","p","n","g">>)],
    [url |-> <<"h","t","t","p","s",":","/","/","x",".","t","e","s","t","/","a","/","b","/","#","t","o","p">>, name |-> Str(<<"b">>)],
    [url |-> <<"h","t","t","p","s",":","/","/","x",".","t","e","s","t","/">>, name |-> Undefined],
    [url |-> <<"n","o","t"," ","a"," ","u","r","l">>, name |-> Undefined],
    [url |-> <<>>, name |-> Undefined] }

NameItems ==
  {AnItem(u.url, fileName, <<>>) : u \in NameUrls, fileName \in {<<>>, <<"o","v","e","r","r","i","d","e",".","b","i","n">>}}

NameResponses == {Response(Png, h.headers) : h \in NameHeaders}

NextFileName ==
  \/ Start
  \/ BeginItem(NameItems)
  \/ DownloadFails
  \/ DownloadReturns(NameResponses)
  \/ SubmitFails
  \/ SubmitReturns(SubmitResponses)
  \/ Return

SpecFileName == Init /\ [][NextFileName]_vars

\* The file name the response headers carry, and the one the URL carries.
NameOfHeaders == (CHOOSE h \in NameHeaders : h.headers = downloadResponse.headers).name

NameOfUrl == (CHOOSE u \in NameUrls : u.url = item.attachmentUrl).name

\* The attachment part of the form being submitted.
AttachmentPart == requestOptions.body[1]

\* C4: the file name of the uploaded attachment part is the fileName
\* override if non-empty, otherwise the name of the Content-Disposition
\* header, otherwise the last non-empty path segment of attachmentUrl,
\* otherwise "attachment".
C4_FileNamePrecedence ==
  pc = "submit" =>
    /\ AttachmentPart.name = <<"a","t","t","a","c","h","m","e","n","t","s","[","]">>
    /\ AttachmentPart.filename =
         IF item.fileName # <<>> THEN Str(item.fileName)
         ELSE IF NameOfHeaders # Undefined THEN NameOfHeaders
         ELSE IF NameOfUrl # Undefined THEN NameOfUrl
         ELSE Str(<<"a","t","t","a","c","h","m","e","n","t">>)

\* C4's case: with no override, a header whose token does not decode and a
\* URL that has a last segment, the part is named by the raw token.
C4_Witness ==
  /\ pc = "submit"
  /\ item.fileName = <<>>
  /\ item.attachmentUrl = <<"h","t","t","p","s",":","/","/","x",".","t","e","s","t","/","f","i","l","e","s","/","i","m","g",".","p","n","g","?","x","=","1">>
  /\ NameOfHeaders = Str(<<"%","z","z",".","t","x","t">>)
  /\ AttachmentPart.filename = Str(<<"%","z","z",".","t","x","t">>)

\* ------------------------------------------------ C5: the MIME type

\* Response headers, each with the value of its Content-Type: none where
\* the header is missing or empty, and the first value of a multi-valued one.
MimeHeaders ==
  { [headers |-> <<>>, type |-> Undefined],
    [headers |-> <<[k |-> <<"C","o","n","t","e","n","t","-","L","e","n","g","t","h">>, v |-> Num(2)]>>, type |-> Undefined],
    [headers |-> <<[k |-> <<"C","o","n","t","e","n","t","-","T","y","p","e">>, v |-> Str(<<>>)]>>, type |-> Undefined],
    [headers |-> <<[k |-> <<"C","o","n","t","e","n","t","-","T","y","p","e">>, v |-> Str(<<"t","e","x","t","/","p","l","a","i","n">>)]>>,
     type |-> Str(<<"t","e","x","t","/","p","l","a","i","n">>)],
    [headers |-> <<[k |-> <<"c","o","n","t","e","n","t","-","t","y","p","e">>, v |-> Str(<<"i","m","a","g","e","/","p","n","g">>)]>>,
     type |-> Str(<<"i","m","a","g","e","/","p","n","g">>)],
    [headers |-> <<[k |-> <<"C","O","N","T","E","N","T","-","T","Y","P","E">>, v |-> Arr(<<Str(<<"a","u","d","i","o","/","o","g","g">>), Str(<<"t","e","x","t","/","h","t","m","l">>)>>)]>>,
     type |-> Str(<<"a","u","d","i","o","/","o","g","g">>)] }

\* additionalFields.attachmentMimeType: absent, left empty, and set.
MimeOverrides == {Absent, Present(Str(<<>>)), Present(Str(<<"a","p","p","l","i","c","a","t","i","o","n","/","p","d","f">>))}

MimeItems ==
  {AnItem(<<"h","t","t","p","s",":","/","/","x",".","t","e","s","t","/","a",".","b","i","n">>, <<>>, Entry(<<"a","t","t","a","c","h","m","e","n","t","M","i","m","e","T","y","p","e">>, o)) : o \in MimeOverrides}

MimeResponses == {Response(Png, h.headers) : h \in MimeHeaders}

NextMime ==
  \/ Start
  \/ BeginItem(MimeItems)
  \/ DownloadFails
  \/ DownloadReturns(MimeResponses)
  \/ SubmitFails
  \/ SubmitReturns(SubmitResponses)
  \/ Return

SpecMime == Init /\ [][NextMime]_vars

TypeOfHeaders == (CHOOSE h \in MimeHeaders : h.headers = downloadResponse.headers).type

MimeOverride == Get(item.additionalFields, <<"a","t","t","a","c","h","m","e","n","t","M","i","m","e","T","y","p","e">>)

\* C5: the MIME type of the uploaded attachment part is
\* additionalFields.attachmentMimeType when it is set (present and not
\* empty), otherwise the value of the Content-Type header, otherwise
\* "application/octet-stream".
C5_MimePrecedence ==
  pc = "submit" =>
    AttachmentPart.contentType =
      IF MimeOverride \notin {Undefined, Str(<<>>)} THEN MimeOverride
      ELSE IF TypeOfHeaders # Undefined THEN TypeOfHeaders
      ELSE Str(<<"a","p","p","l","i","c","a","t","i","o","n","/","o","c","t","e","t","-","s","t","r","e","a","m">>)

\* C5's case: the override is set and the response has a Content-Type.
C5_Witness ==
  /\ pc = "submit"
  /\ MimeOverride = Str(<<"a","p","p","l","i","c","a","t","i","o","n","/","p","d","f">>)
  /\ TypeOfHeaders = Str(<<"a","u","d","i","o","/","o","g","g">>)
  /\ AttachmentPart.contentType = Str(<<"a","p","p","l","i","c","a","t","i","o","n","/","p","d","f">>)

\* ------------------------------------------------ C6: the JSON fields

\* Values of a JSON field, each with its class and, where it is or parses
\* to a JSON value, that value's serialization and truthiness:
\*   "empty"   absent, null, the empty string or a blank string;
\*   "object"  already an object or an array;
\*   "text"    a string that parses;
\*   "bad"     a string that does not parse;
\*   "other"   a value of another type.
JsonCase(opt, class, json, truthy) ==
  [opt |-> opt, class |-> class, json |-> json, truthy |-> truthy]

ContentAttributesCases ==
  { JsonCase(Absent, "empty", <<>>, FALSE),
    JsonCase(Present(Null), "empty", <<>>, FALSE),
    JsonCase(Present(Str(<<>>)), "empty", <<>>, FALSE),
    JsonCase(Present(Str(<<" "," ">>)), "empty", <<>>, FALSE),
    JsonCase(Present(Obj(<<[k |-> <<"a">>, v |-> Num(1)]>>)), "object", <<"{","\"","a","\"",":","1","}">>, TRUE),
    JsonCase(Present(Obj(<<>>)), "object", <<"{","}">>, TRUE),
    JsonCase(Present(Arr(<<Str(<<"x">>), Bool(TRUE)>>)), "object", <<"[","\"","x","\"",",","t","r","u","e","]">>, TRUE),
    JsonCase(Present(Str(<<"{","\"","a","\"",":","1","}">>)), "text", <<"{","\"","a","\"",":","1","}">>, TRUE),
    JsonCase(Present(Str(<<" ","{"," ","\"","a","\""," ",":"," ","[","1",","," ","n","u","l","l","]"," ","}"," ">>)), "text", <<"{","\"","a","\"",":","[","1",",","n","u","l","l","]","}">>, TRUE),
    JsonCase(Present(Str(<<"[","]">>)), "text", <<"[","]">>, TRUE),
    JsonCase(Present(Str(<<"\"","s","t","r","\"">>)), "text", <<"\"","s","t","r","\"">>, TRUE),
    JsonCase(Present(Str(<<"1","2">>)), "text", <<"1","2">>, TRUE),
    JsonCase(Present(Str(<<"n","u","l","l">>)), "text", <<"n","u","l","l">>, FALSE),
    JsonCase(Present(Str(<<"f","a","l","s","e">>)), "text", <<"f","a","l","s","e">>, FALSE),
    JsonCase(Present(Str(<<"0">>)), "text", <<"0">>, FALSE),
    JsonCase(Present(Str(<<"\"","\"">>)), "text", <<"\"","\"">>, FALSE),
    JsonCase(Present(Str(<<"n","o","t"," ","j","s","o","n">>)), "bad", <<>>, FALSE),
    JsonCase(Present(Str(<<"{","\"","a","\"",":","1",",","}">>)), "bad", <<>>, FALSE),
    JsonCase(Present(Num(5)), "other", <<>>, FALSE),
    JsonCase(Present(Bool(FALSE)), "other", <<>>, FALSE) }

TemplateParamsCases ==
  { JsonCase(Absent, "empty", <<>>, FALSE),
    JsonCase(Present(Str(<<"{","\"","t","\"",":","[","1","]","}">>)), "text", <<"{","\"","t","\"",":","[","1","]","}">>, TRUE),
    JsonCase(Present(Str(<<" ","n","u","l","l"," ">>)), "text", <<"n","u","l","l">>, FALSE),
    JsonCase(Present(Str(<<"{","o","o","p","s">>)), "bad", <<>>, FALSE),
    JsonCase(Present(Bool(TRUE)), "other", <<>>, FALSE) }

JsonItems ==
  { AnItem(<<"h","t","t","p","s",":","/","/","x",".","t","e","s","t","/","a",".","p","d","f">>, <<>>,
           Entry(<<"c","o","n","t","e","n","t","A","t","t","r","i","b","u","t","e","s">>, c.opt) \o Entry(<<"t","e","m","p","l","a","t","e","P","a","r","a","m","s">>, t.opt)) :
      c \in ContentAttributesCases, t \in TemplateParamsCases }

NextJson ==
  \/ Start
  \/ BeginItem(JsonItems)
  \/ DownloadFails
  \/ DownloadReturns(DownloadResponses)
  \/ SubmitFails
  \/ SubmitReturns(SubmitResponses)
  \/ Return

SpecJson == Init /\ [][NextJson]_vars

\* The case of the current item's value of a JSON field.
OptionOf(key) ==
  IF HasOwn(item.additionalFields, key)
  THEN Present(Get(item.additionalFields, key)) ELSE Absent

ContentAttributesCase ==
  CHOOSE c \in ContentAttributesCases : c.opt = OptionOf(<<"c","o","n","t","e","n","t","A","t","t","r","i","b","u","t","e","s">>)

TemplateParamsCase ==
  CHOOSE t \in TemplateParamsCases : t.opt = OptionOf(<<"t","e","m","p","l","a","t","e","P","a","r","a","m","s">>)

\* The values the form being submitted has for a field name.
FormValues(name) ==
  {requestOptions.body[p].value :
     p \in {q \in 1..Len(requestOptions.body) : requestOptions.body[q].name = name}}

\* The number of parts the form has for a field name.
FormCount(name) ==
  Cardinality({q \in 1..Len(requestOptions.body) : requestOptions.body[q].name = name})

\* The message of the validation error a case fails with.
ValidationMessage(case, label) ==
  IF case.class = "bad" THEN <<"C","a","n","n","o","t"," ","p","a","r","s","e"," ">> \o label \o <<" ","a","s"," ","J","S","O","N",".">>
  ELSE <<"U","n","s","u","p","p","o","r","t","e","d"," ">> \o label \o <<" ","v","a","l","u","e"," ","t","y","p","e",".">>

\* The item the last request was issued for: the current item.
CurrentItem == requests[Len(requests)].item

\* The current item failed with the validation error of that message before
\* any POST: the catch block was entered for it with the error, and in
\* failure-tolerant mode its result is the error record, in fail-fast mode
\* execute has thrown it.
FailedValidation(message, label) ==
  /\ pc \in {"loop", "returned", "thrown"}
  /\ RequestsFor("POST", CurrentItem) = {}
  /\ Includes(message, label)
  /\ \E c \in 1..Len(caught) :
       /\ caught[c].item = CurrentItem
       /\ caught[c].error = Error("NodeOperationError", message)
  /\ IF continueOnFail
     THEN returnItems[CurrentItem + 1].json = ErrorJson(message)
     ELSE thrown.cause = Error("NodeOperationError", message)

\* The form field of a case that does not fail, a text being submitted
\* when submitsText says so.
JsonFieldAsExpected(case, name, submitsText) ==
  IF case.class = "empty" \/ (case.class = "text" /\ ~submitsText)
  THEN FormCount(name) = 0
  ELSE FormCount(name) = 1 /\ FormValues(name) = {case.json}

\* What the JSON fields of the current item come to once its download has
\* returned, a parsed text being submitted when submitsText(case) says so.
JsonFields(submitsText(_)) ==
  downloadResponse # NoResponse =>
    IF ContentAttributesCase.class \in {"bad", "other"}
    THEN FailedValidation(ValidationMessage(ContentAttributesCase, <<"C","o","n","t","e","n","t"," ","A","t","t","r","i","b","u","t","e","s">>),
                          <<"C","o","n","t","e","n","t"," ","A","t","t","r","i","b","u","t","e","s">>)
    ELSE IF TemplateParamsCase.class \in {"bad", "other"}
    THEN FailedValidation(ValidationMessage(TemplateParamsCase, <<"T","e","m","p","l","a","t","e"," ","P","a","r","a","m","s">>),
                          <<"T","e","m","p","l","a","t","e"," ","P","a","r","a","m","s">>)
    ELSE /\ Cardinality(RequestsFor("POST", CurrentItem)) = 1
         /\ JsonFieldAsExpected(ContentAttributesCase, <<"c","o","n","t","e","n","t","_","a","t","t","r","i","b","u","t","e","s">>,
                                submitsText(ContentAttributesCase))
         /\ JsonFieldAsExpected(TemplateParamsCase, <<"t","e","m","p","l","a","t","e","_","p","a","r","a","m","s">>,
                                submitsText(TemplateParamsCase))

\* C6 as claimed: an empty or absent value is omitted; an object is
\* submitted as it is; a string is trimmed and parsed and the parsed value,
\* whatever it is, is submitted JSON-serialized; a string that does not
\* parse fails the item with a validation error naming the field; a value
\* of another type fails the item with a validation error.
C6_ParsedValueSubmitted == JsonFields(LAMBDA case : TRUE)

\* C6, amended: as claimed, except that a string whose parsed value is
\* falsy (null, false, 0 or the empty string) is omitted from the
\* submission like an empty value.
C6_TruthyParsedValueSubmitted == JsonFields(LAMBDA case : case.truthy)

\* C6's case: the POST is in flight for an item whose contentAttributes is
\* a padded JSON text, submitted serialized, and whose templateParams
\* parses to null, omitted.
C6_Witness ==
  /\ pc = "submit"
  /\ OptionOf(<<"c","o","n","t","e","n","t","A","t","t","r","i","b","u","t","e","s">>) = Present(Str(<<" ","{"," ","\"","a","\""," ",":"," ","[","1",","," ","n","u","l","l","]"," ","}"," ">>))
  /\ OptionOf(<<"t","e","m","p","l","a","t","e","P","a","r","a","m","s">>) = Present(Str(<<" ","n","u","l","l"," ">>))
  /\ FormValues(<<"c","o","n","t","e","n","t","_","a","t","t","r","i","b","u","t","e","s">>) = {<<"{","\"","a","\"",":","[","1",",","n","u","l","l","]","}">>}
  /\ FormCount(<<"t","e","m","p","l","a","t","e","_","p","a","r","a","m","s">>) = 0

\* ------------------------------------------------ C7: the plain fields

ContentOptions == {Absent, Present(Str(<<>>)), Present(Str(<<"h","i">>))}

MessageTypeOptions == {Absent, Present(Str(<<>>)), Present(Str(<<"i","n","c","o","m","i","n","g">>))}

PrivateOptions == {Absent, Present(Bool(FALSE)), Present(Bool(TRUE)), Present(Null)}

ContentTypeOptions == {Absent, Present(Str(<<>>)), Present(Str(<<"c","a","r","d","s">>))}

FormItems ==
  { AnItem(<<"h","t","t","p","s",":","/","/","x",".","t","e","s","t","/","a",".","p","d","f">>, <<>>,
           Entry(<<"c","o","n","t","e","n","t">>, c) \o Entry(<<"m","e","s","s","a","g","e","T","y","p","e">>, m)
           \o Entry(<<"p","r","i","v","a","t","e">>, p) \o Entry(<<"c","o","n","t","e","n","t","T","y","p","e">>, t)) :
      c \in ContentOptions, m \in MessageTypeOptions,
      p \in PrivateOptions, t \in ContentTypeOptions }

NextForm ==
  \/ Start
  \/ BeginItem(FormItems)
  \/ DownloadFails
  \/ DownloadReturns(DownloadResponses)
  \/ SubmitFails
  \/ SubmitReturns(SubmitResponses)
  \/ Return

SpecForm == Init /\ [][NextForm]_vars

\* The form has one part of that name with the string as its value when
\* the key's value is present and not empty, and none otherwise.
AppendedIfNonEmpty(key, name) ==
  IF OptionOf(key) \in {Absent, Present(Str(<<>>))}
  THEN FormCount(name) = 0
  ELSE FormCount(name) = 1 /\ FormValues(name) = {OptionOf(key).v.s}

\* C7: in the form submitted, private is appended exactly when the key is
\* in additionalFields, as "true" when its value is true and "false"
\* otherwise; content, message_type and content_type are appended exactly
\* when their value is present and not empty.
C7_FormFields ==
  pc = "submit" =>
    /\ IF OptionOf(<<"p","r","i","v","a","t","e">>) = Absent
       THEN FormCount(<<"p","r","i","v","a","t","e">>) = 0
       ELSE /\ FormCount(<<"p","r","i","v","a","t","e">>) = 1
            /\ FormValues(<<"p","r","i","v","a","t","e">>) =
                 {IF OptionOf(<<"p","r","i","v","a","t","e">>) = Present(Bool(TRUE)) THEN <<"t","r","u","e">> ELSE <<"f","a","l","s","e">>}
    /\ AppendedIfNonEmpty(<<"c","o","n","t","e","n","t">>, <<"c","o","n","t","e","n","t">>)
    /\ AppendedIfNonEmpty(<<"m","e","s","s","a","g","e","T","y","p","e">>, <<"m","e","s","s","a","g","e","_","t","y","p","e">>)
    /\ AppendedIfNonEmpty(<<"c","o","n","t","e","n","t","T","y","p","e">>, <<"c","o","n","t","e","n","t","_","t","y","p","e">>)

\* C7's case: the key private is present with the value false and content
\* is present but empty; the form has private="false" and no content.
C7_Witness ==
  /\ pc = "submit"
  /\ OptionOf(<<"p","r","i","v","a","t","e">>) = Present(Bool(FALSE))
  /\ OptionOf(<<"c","o","n","t","e","n","t">>) = Present(Str(<<>>))
  /\ OptionOf(<<"c","o","n","t","e","n","t","T","y","p","e">>) = Present(Str(<<"c","a","r","d","s">>))
  /\ FormValues(<<"p","r","i","v","a","t","e">>) = {<<"f","a","l","s","e">>}
  /\ FormCount(<<"c","o","n","t","e","n","t">>) = 0
  /\ FormValues(<<"c","o","n","t","e","n","t","_","t","y","p","e">>) = {<<"c","a","r","d","s">>}

====
